---- MODULE Spec2Model ----
(***************************************************************************)
(* moseq2-pca: the three wrappers of helpers/wrappers.py                   *)
(* (train_pca_wrapper, apply_pca_wrapper, compute_changepoints_wrapper),   *)
(* the appliers and the changepoint driver of pca/util.py, and the         *)
(* per-session imputation arithmetic, as state machines.                   *)
(*                                                                         *)
(* One run executes one entry point (func).  The file system, the compute  *)
(* client and the cluster are state; the outcomes of library calls the     *)
(* source does not decide (train_pca_dask raising, a close() raising, a    *)
(* plot failing, the order in which futures complete) are choices.         *)
(***************************************************************************)
EXTENDS Integers, Sequences, FiniteSets, TLC

(***************************************************************************)
(* Bounds of the model.                                                    *)
(***************************************************************************)
MaxSessions == 3
MaxWorkers == 2
MaxFrames == 2
NPixels == 2
MaxDepth == 2
MaxIters == 2
MaxInserts == 2
MaxRows == 3
MaxRank == 2
MaxTime == 2
MaxFps == 2
MaxChunk == 21
MaxKernel == 43
MaxSigma == 2

VARIABLES
    func,           \* the entry point that is running
    env,            \* what the surroundings decide: files present, workers, library behaviour
    pc,             \* control point inside the entry point
    raised,         \* the exception that left the entry point, or "none"
    config_data,    \* the options the run was started with
    output_dir,     \* "absent" | "present" | "created" (created by this run)
    enumerated,     \* recursive_find_h5s has run
    h5s,            \* the list of session files it found
    ts_checked,     \* get_timestamps(h5s) of the decorator has run
    save_h5,        \* <save_file>.h5: "absent" | "old" | "truncated" | "written"
    config_store,   \* <save_file>.yaml has been written by this run
    opened,         \* the session files have been opened for reading
    plots,          \* plot files saved by this run
    client,         \* "none" | "open" | "closed"
    cluster,        \* "none" | "open" | "closed"
    output_dict,    \* "unbound" | "bound"
    train_exc,      \* what train_pca_dask raised: "none" | "Exception" | "KeyboardInterrupt"
    futures,        \* the lazy computations built by the loading loop, one per session kept
    uuids,          \* the session UUIDs, appended with the futures
    frames,         \* rows of the `frames` variable as the loading loop left it
    batch_size,     \* sessions submitted per batch
    i,              \* loop offset: start of the current batch / index of the current session
    submitted,      \* sessions handed to client.compute so far
    computing,      \* sessions a worker is still computing
    results,        \* outcome of each finished computation
    finished,       \* finished futures as_completed has not yielded yet, in completion order
    writing,        \* commits the coordinator has begun and not ended
    f_store,        \* the datasets committed to the output store, one record per session
    ncommits,       \* how many commits the store has taken
    faulted,        \* sessions whose scoring or commit step raised
    degenerate,     \* sessions whose detector result was (None, None)
    pixels,         \* the values of one flattened frame, as imputation leaves them
    scores,         \* the score of that frame on the one component kept
    iter,           \* compute_svd's iteration counter
    round,          \* which application of the basis this is: 1 or 2
    previous,       \* the content of the scores store after the first application
    padded,         \* scores/<uuid> of one stored session: score rows and inserted rows
    marker,         \* scores_idx/<uuid> of that session
    selected,       \* the rows get_changepoints_dask takes from padded
    v,              \* the components train_pca_dask holds, one row per component
    echoed,         \* the wrapper has written its 'interrupted' message
    asked,          \* the wrapper has put the overwrite question (input())
    svds,           \* how many SVDs compute_svd has run
    imputes,        \* how many times the masked entries have been filled in
    projections,    \* how many times an applier has projected the frame onto the basis
    arg_original,   \* the array handed to mask_data as original_data
    arg_mask,       \* the array handed to mask_data as mask
    arg_new,        \* the array handed to mask_data as new_data
    output,         \* the array mask_data returned
    mean,           \* compute_svd's mean, held as the column sums of X (N times the mean)
    centered,       \* what the latest SVD decomposed, N * (X - mean), row by row
    total_var,      \* compute_svd's total_var, times N * N * (N - 1)
    changepoint_params, \* the keys of the dict the caller passed as changepoint_params
    rps_input,      \* the matrix handed to get_rps, row by row
    ts_input,       \* the timestamps handed to get_changepoints
    cps_result,     \* what get_changepoints returned for the session
    cps_stored,     \* cps/<uuid> and cps_score/<uuid> of the session
    steps,          \* the preprocessing steps applied to the frame, in order
    depth,          \* the overlap, in frames, a chunk is cleaned with
    warned          \* the sessions a warning was issued about

konst == <<func, env>>
files == <<output_dir, enumerated, h5s, ts_checked, save_h5, config_store, opened, plots>>
dask == <<client, cluster>>
train == <<output_dict, train_exc>>
lists == <<futures, uuids, frames, batch_size>>
locals == <<i, computing, results, finished, writing>>
batch == <<locals, submitted, f_store, ncommits, faulted, degenerate>>
applier == <<lists, batch>>
counts == <<iter, svds, imputes, projections>>
moments == <<mean, centered, total_var>>
numeric == <<pixels, scores, counts, moments>>
reindexed == <<padded, marker, selected>>
twice == <<round, previous>>
call == <<arg_original, arg_mask, arg_new, output>>
detect == <<changepoint_params, rps_input, ts_input, cps_result, cps_stored>>
prep == <<steps, depth>>
pure == <<twice, reindexed, v, call, detect, prep>>
told == <<echoed, asked, warned>>
aside == <<pure, told>>

vars == <<konst, pc, raised, config_data, files, dask, train, applier, numeric, aside>>

Untouched(f) == f \in {"absent", "old"}

Terminated == pc \in {"returned", "raised"}

(***************************************************************************)
(* Leaving the entry point with an exception.                              *)
(***************************************************************************)
Raise(e) == pc' = "raised" /\ raised' = e

(***************************************************************************)
(* load_and_check_data.wrapped: the decorator runs before the body of      *)
(* every wrapper.  It creates the output directory, enumerates the session *)
(* files and checks their timestamps, then calls the wrapped function.     *)
(***************************************************************************)
WrapperNames == {"train_pca_wrapper", "apply_pca_wrapper", "compute_changepoints_wrapper"}

BodyOf(f) ==
    CASE f = "train_pca_wrapper" -> "train_check"
      [] f = "apply_pca_wrapper" -> "apply_paths"
      [] OTHER -> "cp_paths"

wrapped ==
    /\ pc = "start"
    /\ func \in WrapperNames
    /\ output_dir' = IF output_dir = "absent" THEN "created" ELSE output_dir
    /\ enumerated' = TRUE
    /\ h5s' = [k \in 1..env.nsessions |-> k]
    /\ ts_checked' = TRUE
    /\ pc' = BodyOf(func)
    /\ UNCHANGED <<aside, numeric, konst, raised, config_data, save_h5, config_store, opened, plots,
                   dask, train, applier>>

(***************************************************************************)
(* train_pca_wrapper                                                       *)
(***************************************************************************)
UnsupportedConfiguration(cfg) == cfg.missing_data /\ cfg.use_fft

\* lines 96-97
TrainCheckConfig ==
    /\ pc = "train_check"
    /\ IF UnsupportedConfiguration(config_data)
         THEN Raise("NotImplementedError")
         ELSE pc' = "train_overwrite" /\ UNCHANGED raised
    /\ UNCHANGED <<aside, numeric, konst, config_data, files, dask, train, applier>>

\* lines 109-114: an existing basis file asks the overwrite question; no
\* entry of config_data is read
TrainOverwrite ==
    /\ pc = "train_overwrite"
    /\ asked' = (save_h5 # "absent")
    /\ IF asked' /\ env.ow # "y"
         THEN pc' = "returned"
         ELSE pc' = "train_setup"
    /\ UNCHANGED <<pure, echoed, warned, numeric, konst, raised, config_data, files, dask, train, applier>>

\* lines 116-171: config yaml, session files, initialize_dask, masks
TrainSetup ==
    /\ pc = "train_setup"
    /\ config_store' = TRUE
    /\ opened' = TRUE
    /\ client' = "open"
    /\ cluster' = "open"
    /\ pc' = "train_compute"
    /\ UNCHANGED <<aside, numeric, konst, raised, config_data, output_dir, enumerated, h5s, ts_checked,
                   save_h5, plots, train, applier>>

\* lines 174-183: train_pca_dask returns, raises an Exception (caught), or
\* raises a BaseException that `except Exception` does not catch
TrainCompute ==
    /\ pc = "train_compute"
    /\ \E outcome \in {"ok", "Exception", "KeyboardInterrupt"} :
         CASE outcome = "ok" ->
                /\ output_dict' = "bound"
                /\ pc' = "train_plot"
                /\ UNCHANGED <<train_exc, raised>>
           [] outcome = "Exception" ->
                /\ train_exc' = "Exception"
                /\ pc' = "train_interrupted"
                /\ UNCHANGED <<output_dict, raised>>
           [] OTHER ->
                /\ train_exc' = "KeyboardInterrupt"
                /\ Raise("KeyboardInterrupt")
                /\ UNCHANGED output_dict
    /\ UNCHANGED <<aside, numeric, konst, config_data, files, dask, applier>>

\* click.echo(message, file): the second positional argument is the stream
\* written to.  Lines 188, 202 and 214 pass a path string there; whether the
\* write to it raises is the library's decision.
EchoToPathRaises == env.echo_path_raises

\* client.close(timeout) then cluster.close(timeout), unguarded (lines
\* 189-190, 329-330): either call may raise, which ends the sequence
CloseBoth(next) ==
    \E fails \in {"none", "client", "cluster"} :
       CASE fails = "client" ->
              Raise("CloseError") /\ UNCHANGED <<client, cluster>>
         [] fails = "cluster" ->
              Raise("CloseError") /\ client' = "closed" /\ UNCHANGED cluster
         [] OTHER ->
              /\ client' = "closed"
              /\ cluster' = "closed"
              /\ pc' = next
              /\ UNCHANGED raised

\* lines 183-190: the handler logs, echoes and closes client and cluster; it
\* does not re-raise
TrainInterrupted ==
    /\ pc = "train_interrupted"
    /\ echoed' = TRUE
    /\ IF EchoToPathRaises
         THEN Raise("AttributeError") /\ UNCHANGED <<client, cluster>>
         ELSE CloseBoth("train_plot")
    /\ UNCHANGED <<pure, asked, warned, numeric, konst, config_data, files, train, applier>>

\* one guarded plot block (lines 193-202, 205-214): reading output_dict when
\* it is unbound raises inside the try; the handler echoes with a path
PlotBlock(names, next) ==
    \E plot_ok \in BOOLEAN :
       IF output_dict = "bound" /\ plot_ok
         THEN plots' = plots \cup names /\ pc' = next /\ UNCHANGED raised
         ELSE /\ UNCHANGED plots
              /\ IF EchoToPathRaises
                   THEN Raise("AttributeError")
                   ELSE pc' = next /\ UNCHANGED raised

TrainPlotComponents ==
    /\ pc = "train_plot"
    /\ PlotBlock({"components.png", "components.pdf"}, "train_scree")
    /\ UNCHANGED <<aside, numeric, konst, config_data, output_dir, enumerated, h5s, ts_checked,
                   save_h5, config_store, opened, dask, train, applier>>

TrainPlotScree ==
    /\ pc = "train_scree"
    /\ PlotBlock({"scree.png", "scree.pdf"}, "train_save")
    /\ UNCHANGED <<aside, numeric, konst, config_data, output_dir, enumerated, h5s, ts_checked,
                   save_h5, config_store, opened, dask, train, applier>>

\* util.py 251-257: the entries of the dict train_pca_dask returns
OutputKeys ==
    {"components", "singular_values", "explained_variance", "explained_variance_ratio", "mean"}

\* lines 217-219: one dataset per entry of output_dict
Datasets == IF save_h5 = "written" THEN OutputKeys ELSE {}

\* the files the wrapper has put under <save_file>: lines 117-119, 195-196,
\* 207-208, 217
OutputFiles ==
    (IF config_store THEN {"yaml"} ELSE {})
        \cup plots
        \cup (IF save_h5 # "absent" THEN {"h5"} ELSE {})

\* the same without line 221
TrainSave_PcaFileUnset ==
    /\ pc = "train_save"
    /\ IF output_dict = "bound"
         THEN /\ save_h5' = "written"
              /\ pc' = "train_teardown"
              /\ UNCHANGED <<raised, config_data>>
         ELSE /\ save_h5' = "truncated"
              /\ Raise("UnboundLocalError")
              /\ UNCHANGED config_data
    /\ UNCHANGED <<aside, numeric, konst, output_dir, enumerated, h5s, ts_checked, config_store,
                   opened, plots, dask, train, applier>>

\* lines 216-221: the basis file is opened with mode 'w' (created or
\* truncated) before output_dict is read
TrainSave ==
    /\ pc = "train_save"
    /\ IF output_dict = "bound"
         THEN /\ save_h5' = "written"
              /\ config_data' = [config_data EXCEPT !.pca_file = "save_file.h5"]
              /\ pc' = "train_teardown"
              /\ UNCHANGED raised
         ELSE /\ save_h5' = "truncated"
              /\ Raise("UnboundLocalError")
              /\ UNCHANGED config_data
    /\ UNCHANGED <<aside, numeric, konst, output_dir, enumerated, h5s, ts_checked, config_store,
                   opened, plots, dask, train, applier>>

\* lines 223-230, 332-339, 413-420: close client then cluster inside
\* try/except; whatever a close raises is swallowed
Teardown(next) ==
    /\ \E fails \in {"none", "client", "cluster"} :
         CASE fails = "client" -> UNCHANGED <<client, cluster>>
           [] fails = "cluster" -> client' = "closed" /\ UNCHANGED cluster
           [] OTHER -> client' = "closed" /\ cluster' = "closed"
    /\ pc' = next

TrainTeardown ==
    /\ pc = "train_teardown"
    /\ Teardown("returned")
    /\ UNCHANGED <<aside, numeric, konst, raised, config_data, files, train, applier>>

(***************************************************************************)
(* The training run.                                                       *)
(***************************************************************************)
FreshState ==
    /\ pc = "start"
    /\ raised = "none"
    /\ output_dir \in {"absent", "present"}
    /\ enumerated = FALSE
    /\ h5s = << >>
    /\ ts_checked = FALSE
    /\ save_h5 \in {"absent", "old"}
    /\ (output_dir = "absent" => save_h5 = "absent")
    /\ config_store = FALSE
    /\ opened = FALSE
    /\ plots = {}
    /\ client = "none"
    /\ cluster = "none"
    /\ output_dict = "unbound"
    /\ train_exc = "none"
    /\ futures = << >>
    /\ uuids = << >>
    /\ frames = 0
    /\ batch_size = 0
    /\ i = 0
    /\ submitted = {}
    /\ computing = {}
    /\ results = << >>
    /\ finished = << >>
    /\ writing = {}
    /\ f_store = {}
    /\ ncommits = 0
    /\ faulted = {}
    /\ degenerate = {}
    /\ round = 1
    /\ previous = {}
    /\ padded = << >>
    /\ marker = << >>
    /\ selected = << >>
    /\ v = << >>
    /\ echoed = FALSE
    /\ warned = {}
    /\ asked = FALSE
    /\ arg_original = << >>
    /\ arg_mask = << >>
    /\ arg_new = << >>
    /\ output = << >>
    /\ changepoint_params = {}
    /\ rps_input = << >>
    /\ ts_input = << >>
    /\ cps_result = << >>
    /\ cps_stored = << >>
    /\ steps = << >>
    /\ depth = 0

\* no frame has been read
FreshRun ==
    /\ FreshState
    /\ pixels = << >>
    /\ scores = 0
    /\ iter = 0
    /\ svds = 0
    /\ imputes = 0
    /\ projections = 0
    /\ mean = << >>
    /\ centered = << >>
    /\ total_var = 0

TrainConfigs ==
    [missing_data : BOOLEAN, use_fft : BOOLEAN, pca_file : {"none"},
     overwrite_pca_train : BOOLEAN]

TrainEnvs ==
    [nsessions : 0..1, ow : {"y", "n"}, echo_path_raises : BOOLEAN]

InitTrain ==
    /\ func = "train_pca_wrapper"
    /\ config_data \in TrainConfigs
    /\ env \in TrainEnvs
    /\ FreshRun

NextTrain ==
    \/ wrapped
    \/ TrainCheckConfig
    \/ TrainOverwrite
    \/ TrainSetup
    \/ TrainCompute
    \/ TrainInterrupted
    \/ TrainPlotComponents
    \/ TrainPlotScree
    \/ TrainSave
    \/ TrainTeardown

SpecTrain == InitTrain /\ [][NextTrain]_vars

(***************************************************************************)
(* Helpers on lists, as Python computes them.                              *)
(***************************************************************************)
Range(seq) == {seq[k] : k \in DOMAIN seq}

Min(a, b) == IF a < b THEN a ELSE b

\* seq[a:b]
Slice(seq, a, b) == SubSeq(seq, a + 1, Min(b, Len(seq)))

\* seq.index(x): the first position holding x (0-based)
IndexOf(seq, x) ==
    (CHOOSE k \in DOMAIN seq : seq[k] = x /\ \A j \in 1..(k - 1) : seq[j] # x) - 1

\* read_yaml(yml)['uuid'] of the session file h5: distinct sessions carry
\* distinct UUIDs
UuidOf(h5) == 100 + h5

\* rows of a session's frames, hence of its score matrix
Rows(h5) == env.nframes[h5]

(***************************************************************************)
(* get_timestamps(f, frames, fps) of pca/util.py: the timestamps stored in *)
(* file f when it has any, else one default entry per row of `frames`.     *)
(* The series is named by the file it was read from (0: the default        *)
(* series) and its length.                                                 *)
(***************************************************************************)
get_timestamps(f, has_ts, frames_rows) ==
    IF has_ts THEN [of |-> f, len |-> Rows(f)]
              ELSE [of |-> 0, len |-> frames_rows]

(***************************************************************************)
(* apply_pca_wrapper                                                       *)
(***************************************************************************)
\* lines 267-276
ResolvePcaFile(cfg, e) ==
    IF cfg.pca_file = "none" THEN "default"
    ELSE IF ~e.cfg_pca_exists THEN "default"
    ELSE "configured"

PathExists(path, e) ==
    IF path = "default" THEN e.default_pca_exists ELSE e.cfg_pca_exists

\* the same with initialize_dask hoisted above the existence check
ApplyPaths_DaskFirst ==
    /\ pc = "apply_paths"
    /\ client' = "open"
    /\ cluster' = "open"
    /\ LET pca_file == ResolvePcaFile(config_data, env) IN
         /\ config_data' = [config_data EXCEPT !.pca_file = pca_file]
         /\ IF ~PathExists(pca_file, env)
              THEN Raise("IOError")
              ELSE pc' = "apply_load" /\ UNCHANGED raised
    /\ UNCHANGED <<aside, numeric, konst, files, train, applier>>

\* lines 264-279
ApplyPaths ==
    /\ pc = "apply_paths"
    /\ LET pca_file == ResolvePcaFile(config_data, env) IN
         /\ config_data' = [config_data EXCEPT !.pca_file = pca_file]
         /\ IF ~PathExists(pca_file, env)
              THEN Raise("IOError")
              ELSE pc' = "apply_load" /\ UNCHANGED raised
    /\ UNCHANGED <<aside, numeric, konst, files, dask, train, applier>>

\* lines 281-289: the components are read, then get_pca_yaml_data; without
\* the yaml its return statement reads unbound names (data.py 168-171)
ApplyLoad ==
    /\ pc = "apply_load"
    /\ IF ~env.pca_yaml_exists
         THEN Raise("UnboundLocalError")
         ELSE /\ pc' = IF config_data.cluster_type = "nodask"
                         THEN "local_open" ELSE "apply_init_dask"
              /\ UNCHANGED raised
    /\ UNCHANGED <<aside, numeric, konst, config_data, files, dask, train, applier>>

\* lines 302-316
ApplyInitDask ==
    /\ pc = "apply_init_dask"
    /\ client' = "open"
    /\ cluster' = "open"
    /\ pc' = "dask_load"
    /\ UNCHANGED <<aside, numeric, konst, raised, config_data, files, train, applier>>

(***************************************************************************)
(* apply_pca_local: one session at a time, no try inside the loop; the     *)
(* 'nodask' branch of the wrapper (lines 293-299) has none either.         *)
(***************************************************************************)
\* line 290
LocalOpenStore ==
    /\ pc = "local_open"
    /\ UNCHANGED degenerate
    /\ save_h5' = "truncated"
    /\ f_store' = {}
    /\ ncommits' = 0
    /\ i' = 0
    /\ pc' = "local_loop"
    /\ UNCHANGED <<aside, numeric, konst, raised, config_data, output_dir, enumerated, h5s, ts_checked,
                   config_store, opened, plots, dask, train, lists, submitted,
                   computing, results, finished, writing, faulted>>

\* lines 291-334: one iteration of the loop, or its end
LocalSession ==
    /\ pc = "local_loop"
    /\ UNCHANGED degenerate
    /\ IF i >= Len(h5s)
         THEN /\ pc' = "apply_return"
              /\ i' = 0
              /\ frames' = 0
              /\ UNCHANGED <<raised, f_store, ncommits, faulted, opened, save_h5>>
         ELSE LET h5 == h5s[i + 1] IN
              \E outcome \in {"ok", "error"} :
                 /\ opened' = TRUE
                 /\ IF outcome = "ok"
                      THEN /\ f_store' = f_store \cup
                                  {[uuid |-> UuidOf(h5), src |-> h5, rows |-> Rows(h5),
                                    ts |-> get_timestamps(h5, env.has_ts[h5], Rows(h5))]}
                           /\ ncommits' = ncommits + 1
                           /\ save_h5' = "written"
                           /\ i' = i + 1
                           /\ frames' = Rows(h5)
                           /\ UNCHANGED <<pc, raised, faulted>>
                      ELSE /\ faulted' = faulted \cup {h5}
                           /\ Raise("SessionError")
                           /\ i' = 0
                           /\ frames' = 0
                           /\ UNCHANGED <<f_store, ncommits, save_h5>>
    /\ UNCHANGED <<aside, numeric, konst, config_data, output_dir, enumerated, h5s, ts_checked,
                   config_store, plots, dask, train, futures, uuids, batch_size,
                   submitted, computing, results, finished, writing>>

(***************************************************************************)
(* apply_pca_dask                                                          *)
(***************************************************************************)
\* lines 367-408: the loading loop builds one lazy computation per session
\* and leaves `frames` bound to the last session's frames
DaskLoad ==
    /\ pc = "dask_load"
    /\ futures' = h5s
    /\ uuids' = [k \in DOMAIN h5s |-> UuidOf(h5s[k])]
    /\ frames' = IF h5s = << >> THEN 0 ELSE Rows(h5s[Len(h5s)])
    /\ opened' = (opened \/ h5s # << >>)
    /\ pc' = "dask_open"
    /\ UNCHANGED <<aside, numeric, konst, raised, config_data, output_dir, enumerated, h5s, ts_checked,
                   save_h5, config_store, plots, dask, train, batch_size, batch>>

\* every session in one batch, whatever the number of workers
BatchSize_AllAtOnce == Len(futures)

\* line 411
BatchSize == env.workers

\* lines 410-416
DaskOpenStore ==
    /\ pc = "dask_open"
    /\ UNCHANGED degenerate
    /\ batch_size' = BatchSize
    /\ save_h5' = "truncated"
    /\ f_store' = {}
    /\ ncommits' = 0
    /\ i' = 0
    /\ pc' = "dask_submit"
    /\ UNCHANGED <<aside, numeric, konst, raised, config_data, output_dir, enumerated, h5s, ts_checked,
                   config_store, opened, plots, dask, train, futures, uuids, frames,
                   submitted, computing, results, finished, writing, faulted>>

\* leaving apply_pca_dask or get_changepoints_dask, by return or by exception,
\* ends the life of its local variables; the futures go with them
Forget ==
    /\ futures' = << >>
    /\ uuids' = << >>
    /\ frames' = 0
    /\ batch_size' = 0
    /\ i' = 0
    /\ computing' = {}
    /\ results' = << >>
    /\ finished' = << >>
    /\ writing' = {}

futures_batch == Slice(futures, i, i + batch_size)
uuids_batch == Slice(uuids, i, i + batch_size)
h5s_batch == Slice(h5s, i, i + batch_size)
\* the key of a future names the computation, that is the session it scores
keys == futures_batch

\* the same by the number of results already yielded of the batch
FileIdx_ByCompletion(key) == Len(futures_batch) - Cardinality(computing) - Len(finished)

\* lines 428, 542: file_idx = keys.index(future.key)
FileIdx(key) == IndexOf(keys, key)

\* lines 417-423: the next batch is submitted, or the loop is over
DaskSubmit ==
    /\ pc = "dask_submit"
    /\ UNCHANGED degenerate
    /\ IF i >= Len(futures)
         THEN /\ pc' = "apply_teardown"
              /\ Forget
              /\ UNCHANGED submitted
         ELSE /\ submitted' = submitted \cup Range(futures_batch)
              /\ computing' = Range(futures_batch)
              /\ pc' = "dask_await"
              /\ UNCHANGED <<lists, i, results, finished, writing>>
    /\ UNCHANGED <<aside, numeric, konst, raised, config_data, files, dask, train, f_store, ncommits,
                   faulted>>

\* a worker ends the computation of one session, with scores or an error
DaskFinish(s) ==
    /\ pc \in {"dask_await", "dask_commit"}
    /\ UNCHANGED degenerate
    /\ s \in computing
    /\ computing' = computing \ {s}
    /\ \E r \in {"ok", "error"} : results' = results @@ (s :> r)
    /\ finished' = Append(finished, s)
    /\ UNCHANGED <<aside, numeric, konst, pc, raised, config_data, files, dask, train, lists, i,
                   submitted, writing, f_store, ncommits, faulted>>

\* line 426: as_completed yields the next finished future with its result,
\* re-raising the error of a failed one; lines 428-435 begin its commit
DaskYield ==
    /\ pc = "dask_await"
    /\ UNCHANGED degenerate
    /\ IF finished = << >>
         THEN /\ computing = {}
              /\ i' = i + batch_size
              /\ results' = << >>
              /\ pc' = "dask_submit"
              /\ UNCHANGED <<lists, computing, finished, writing, faulted>>
         ELSE LET key == Head(finished)
                  file_idx == FileIdx(key)
              IN  IF results[key] = "error"
                    THEN /\ faulted' = faulted \cup {key}
                         /\ pc' = "apply_interrupted"
                         /\ Forget
                    ELSE /\ finished' = Tail(finished)
                         /\ writing' = writing \cup
                              {[uuid |-> uuids_batch[file_idx + 1], src |-> key,
                                rows |-> Rows(key),
                                ts |-> get_timestamps(h5s_batch[file_idx + 1],
                                         env.has_ts[h5s_batch[file_idx + 1]], frames)]}
                         /\ pc' = "dask_commit"
                         /\ UNCHANGED <<lists, i, computing, results, faulted>>
    /\ UNCHANGED <<aside, numeric, konst, raised, config_data, files, dask, train, submitted,
                   f_store, ncommits>>

\* lines 434-440: insert_nans and the two create_dataset calls, which may raise
DaskCommit ==
    /\ pc = "dask_commit"
    /\ UNCHANGED degenerate
    /\ \E c \in writing, outcome \in {"ok", "error"} :
         IF outcome = "ok"
           THEN /\ writing' = writing \ {c}
                /\ f_store' = f_store \cup {c}
                /\ ncommits' = ncommits + 1
                /\ save_h5' = "written"
                /\ pc' = "dask_await"
                /\ UNCHANGED <<lists, i, computing, results, finished, faulted>>
           ELSE /\ faulted' = faulted \cup {c.src}
                /\ pc' = "apply_interrupted"
                /\ Forget
                /\ UNCHANGED <<f_store, ncommits, save_h5>>
    /\ UNCHANGED <<aside, numeric, konst, raised, config_data, output_dir, enumerated, h5s, ts_checked,
                   config_store, opened, plots, dask, train, submitted>>

\* the same without the message
ApplyInterrupted_Silent ==
    /\ pc = "apply_interrupted"
    /\ CloseBoth("apply_teardown")
    /\ UNCHANGED <<aside, numeric, konst, config_data, files, train, applier>>

\* lines 326-330: the bare except of the wrapper around apply_pca_dask
\* echoes 'Operation interrupted. Closing Dask Client.' and closes both
ApplyInterrupted ==
    /\ pc = "apply_interrupted"
    /\ echoed' = TRUE
    /\ CloseBoth("apply_teardown")
    /\ UNCHANGED <<pure, asked, warned, numeric, konst, config_data, files, train, applier>>

\* lines 332-339
ApplyTeardown ==
    /\ pc = "apply_teardown"
    /\ Teardown("apply_return")
    /\ UNCHANGED <<aside, numeric, konst, raised, config_data, files, train, applier>>

\* lines 342-343
ApplyReturn ==
    /\ pc = "apply_return"
    /\ pc' = "returned"
    /\ UNCHANGED <<aside, numeric, konst, raised, config_data, files, dask, train, applier>>

(***************************************************************************)
(* The scoring run.                                                        *)
(***************************************************************************)
ApplyConfigs ==
    [pca_file : {"none", "configured"}, cluster_type : {"nodask", "local"}]

\* the session files found, their frame counts, whether each stores
\* timestamps, and the cluster's workers
SessionEnvs(most) ==
    UNION {[nsessions : {n}, nframes : [1..n -> 1..MaxFrames],
            has_ts : [1..n -> BOOLEAN], workers : 1..MaxWorkers] : n \in 0..most}

BasisFiles ==
    [cfg_pca_exists : BOOLEAN, default_pca_exists : BOOLEAN, pca_yaml_exists : BOOLEAN]

\* every arrangement of the basis files, over at most one session
InitApply ==
    /\ func = "apply_pca_wrapper"
    /\ config_data \in ApplyConfigs
    /\ \E se \in SessionEnvs(1), bf \in BasisFiles : env = se @@ bf
    /\ (config_data.pca_file = "none" => ~env.cfg_pca_exists)
    /\ (config_data.cluster_type = "nodask" => env.workers = 1)
    /\ FreshRun

\* every arrangement of sessions and workers, over a basis trained into
\* <output_dir>/pca.h5
InitScores ==
    /\ func = "apply_pca_wrapper"
    /\ config_data \in ApplyConfigs
    /\ config_data.pca_file = "none"
    /\ \E se \in SessionEnvs(MaxSessions) :
          env = se @@ [cfg_pca_exists |-> FALSE, default_pca_exists |-> TRUE,
                       pca_yaml_exists |-> TRUE]
    /\ (config_data.cluster_type = "nodask" => env.workers = 1)
    /\ FreshRun
    /\ output_dir = "present"
    /\ save_h5 = "absent"

NextApply ==
    \/ wrapped
    \/ ApplyPaths
    \/ ApplyLoad
    \/ ApplyInitDask
    \/ LocalOpenStore
    \/ LocalSession
    \/ DaskLoad
    \/ DaskOpenStore
    \/ DaskSubmit
    \/ \E s \in 1..MaxSessions : DaskFinish(s)
    \/ DaskYield
    \/ DaskCommit
    \/ ApplyInterrupted
    \/ ApplyTeardown
    \/ ApplyReturn

SpecApply == InitApply /\ [][NextApply]_vars

SpecScores == InitScores /\ [][NextApply]_vars

\* apply_pca_wrapper has returned with every session scored; it is called
\* again on the same input directory, output directory and configuration
Again ==
    /\ pc = "returned"
    /\ func = "apply_pca_wrapper"
    /\ faulted = {}
    /\ round = 1
    /\ round' = 2
    /\ previous' = f_store
    /\ pc' = "start"
    /\ enumerated' = FALSE
    /\ h5s' = << >>
    /\ ts_checked' = FALSE
    /\ opened' = FALSE
    /\ client' = "none"
    /\ cluster' = "none"
    /\ submitted' = {}
    /\ UNCHANGED <<reindexed, v, told, call, detect, prep, numeric, konst, raised, config_data, output_dir, save_h5,
                   config_store, plots, train, lists, locals, f_store, ncommits,
                   faulted, degenerate>>

\* the scoring run, twice over
SpecTwice == InitScores /\ [][NextApply \/ Again]_vars

\* apply_pca_wrapper has scored every session with apply_pca_local; it is
\* called again on the same input, with a cluster this time (lines 292-325)
OtherMode ==
    /\ pc = "returned"
    /\ func = "apply_pca_wrapper"
    /\ faulted = {}
    /\ round = 1
    /\ round' = 2
    /\ previous' = f_store
    /\ config_data' = [config_data EXCEPT !.cluster_type = "local"]
    /\ pc' = "start"
    /\ enumerated' = FALSE
    /\ h5s' = << >>
    /\ ts_checked' = FALSE
    /\ opened' = FALSE
    /\ client' = "none"
    /\ cluster' = "none"
    /\ submitted' = {}
    /\ UNCHANGED <<reindexed, v, told, call, detect, prep, numeric, konst, raised, output_dir, save_h5,
                   config_store, plots, train, lists, locals, f_store, ncommits,
                   faulted, degenerate>>

\* sessions scored without dask first, whatever the cluster would offer
InitModes ==
    /\ func = "apply_pca_wrapper"
    /\ config_data = [pca_file |-> "none", cluster_type |-> "nodask"]
    /\ \E se \in SessionEnvs(MaxSessions) :
          env = se @@ [cfg_pca_exists |-> FALSE, default_pca_exists |-> TRUE,
                       pca_yaml_exists |-> TRUE]
    /\ FreshRun
    /\ output_dir = "present"
    /\ save_h5 = "absent"

\* the sequential applier, then the parallel one
SpecModes == InitModes /\ [][NextApply \/ OtherMode]_vars

(***************************************************************************)
(* compute_changepoints_wrapper                                            *)
(***************************************************************************)
\* the path get_pca_paths returns for the scores: the configured one, else
\* <output_dir>/pca_scores.h5; never None
ResolveScoresFile(cfg) ==
    IF cfg.pca_file_scores = "none" THEN "default" ELSE "configured"

\* line 379: the components path is resolved as in apply_pca_wrapper and
\* must exist
CpPaths ==
    /\ pc = "cp_paths"
    /\ LET pca_file_components == ResolvePcaFile(config_data, env)
           pca_file_scores == ResolveScoresFile(config_data)
       IN  /\ config_data' = [config_data EXCEPT !.pca_file = pca_file_components,
                                                 !.pca_file_scores = pca_file_scores]
           /\ IF ~PathExists(pca_file_components, env)
                THEN Raise("IOError")
                ELSE pc' = "cp_load" /\ UNCHANGED raised
    /\ UNCHANGED <<aside, numeric, konst, files, dask, train, applier>>

\* lines 382-383, load_pcs_for_cp: missing_data is bound only when the pca
\* yaml exists (data.py 90-103, read at 116); with missing data the scores
\* file must exist (105-106)
CpLoad ==
    /\ pc = "cp_load"
    /\ IF ~env.pca_yaml_exists
         THEN Raise("UnboundLocalError")
         ELSE IF env.yaml_missing_data /\ ~env.scores_exists
                THEN Raise("RuntimeError")
                ELSE pc' = "cp_init_dask" /\ UNCHANGED raised
    /\ UNCHANGED <<aside, numeric, konst, config_data, files, dask, train, applier>>

\* lines 386-397
CpInitDask ==
    /\ pc = "cp_init_dask"
    /\ client' = "open"
    /\ cluster' = "open"
    /\ pc' = "cp_setup"
    /\ UNCHANGED <<aside, numeric, konst, raised, config_data, files, train, applier>>

(***************************************************************************)
(* get_changepoints_dask, called by the wrapper or directly                *)
(***************************************************************************)
Direct == func = "get_changepoints_dask"

\* the arguments missing_data and pca_scores
MissingData == IF Direct THEN env.missing_data ELSE env.yaml_missing_data

PcaScores == IF Direct THEN env.pca_scores ELSE config_data.pca_file_scores

\* a direct call: the caller hands over the session files and an open client
Call ==
    /\ pc = "start"
    /\ Direct
    /\ h5s' = [k \in 1..env.nsessions |-> k]
    /\ client' = "open"
    /\ cluster' = "open"
    /\ pc' = "cp_setup"
    /\ UNCHANGED <<aside, numeric, konst, raised, config_data, output_dir, enumerated, ts_checked,
                   save_h5, config_store, opened, plots, train, applier>>

\* an exception leaves get_changepoints_dask: to the caller of a direct
\* call, to the bare except of the wrapper (line 409) otherwise
CpFail(e) ==
    /\ IF Direct THEN Raise(e) ELSE pc' = "cp_interrupted" /\ UNCHANGED raised
    /\ Forget

\* the sessions the set-up loop keeps: with missing data, one whose chunks do
\* not add up to its scores is dropped (lines 504-506)
Kept == SelectSeq(h5s, LAMBDA h5 : ~(MissingData /\ env.mismatch[h5]))

\* the sessions the set-up loop warns about and passes over (lines 504-506)
Dropped == {h5 \in Range(h5s) : MissingData /\ env.mismatch[h5]}

\* the set-up loop with the scores check after the store has been opened
CpSetup_CheckLate ==
    /\ pc = "cp_setup"
    /\ opened' = (opened \/ h5s # << >>)
    /\ IF h5s # << >> /\ MissingData /\ PcaScores = "none"
         THEN /\ save_h5' = "truncated"
              /\ CpFail("RuntimeError")
              /\ UNCHANGED warned
         ELSE /\ futures' = Kept
              /\ uuids' = [k \in DOMAIN Kept |-> UuidOf(Kept[k])]
              /\ warned' = warned \cup Dropped
              /\ pc' = "cp_open"
              /\ UNCHANGED <<raised, save_h5, frames, batch_size, locals>>
    /\ UNCHANGED <<pure, echoed, asked, numeric, konst, config_data, output_dir, enumerated, h5s, ts_checked,
                   config_store, plots, dask, train, submitted, f_store, ncommits,
                   faulted, degenerate>>

\* the set-up loop with the UUID appended before the scores check
CpSetup_UuidBeforeCheck ==
    /\ pc = "cp_setup"
    /\ opened' = (opened \/ h5s # << >>)
    /\ IF h5s # << >> /\ MissingData /\ PcaScores = "none"
         THEN CpFail("RuntimeError") /\ UNCHANGED warned
         ELSE /\ futures' = Kept
              /\ uuids' = [k \in DOMAIN h5s |-> UuidOf(h5s[k])]
              /\ warned' = warned \cup Dropped
              /\ pc' = "cp_open"
              /\ UNCHANGED <<raised, frames, batch_size, locals>>
    /\ UNCHANGED <<pure, echoed, asked, numeric, konst, config_data, output_dir, enumerated, h5s, ts_checked,
                   save_h5, config_store, plots, dask, train, submitted, f_store,
                   ncommits, faulted, degenerate>>

\* lines 472-521: the set-up loop; its first iteration raises when data is
\* missing and no scores were given (489-490)
CpSetup ==
    /\ pc = "cp_setup"
    /\ opened' = (opened \/ h5s # << >>)
    /\ IF h5s # << >> /\ MissingData /\ PcaScores = "none"
         THEN CpFail("RuntimeError") /\ UNCHANGED warned
         ELSE /\ futures' = Kept
              /\ uuids' = [k \in DOMAIN Kept |-> UuidOf(Kept[k])]
              /\ warned' = warned \cup Dropped
              /\ pc' = "cp_open"
              /\ UNCHANGED <<raised, frames, batch_size, locals>>
    /\ UNCHANGED <<pure, echoed, asked, numeric, konst, config_data, output_dir, enumerated, h5s, ts_checked,
                   save_h5, config_store, plots, dask, train, submitted, f_store,
                   ncommits, faulted, degenerate>>

\* lines 524-530: one session per batch; the store is created or truncated
CpOpenStore ==
    /\ pc = "cp_open"
    /\ batch_size' = 1
    /\ save_h5' = "truncated"
    /\ f_store' = {}
    /\ ncommits' = 0
    /\ i' = 0
    /\ pc' = "cp_submit"
    /\ UNCHANGED <<aside, numeric, konst, raised, config_data, output_dir, enumerated, h5s, ts_checked,
                   config_store, opened, plots, dask, train, futures, uuids, frames,
                   submitted, computing, results, finished, writing, faulted,
                   degenerate>>

\* lines 533-538: the next batch is submitted, or the function returns
CpSubmit ==
    /\ pc = "cp_submit"
    /\ IF i >= Len(futures)
         THEN /\ pc' = IF Direct THEN "returned" ELSE "cp_teardown"
              /\ Forget
              /\ UNCHANGED submitted
         ELSE /\ submitted' = submitted \cup Range(futures_batch)
              /\ computing' = Range(futures_batch)
              /\ pc' = "cp_await"
              /\ UNCHANGED <<lists, i, results, finished, writing>>
    /\ UNCHANGED <<aside, numeric, konst, raised, config_data, files, dask, train, f_store, ncommits,
                   faulted, degenerate>>

\* a worker ends the detection of one session: changepoints, the degenerate
\* pair (None, None), or an error
CpFinish(s) ==
    /\ pc \in {"cp_await", "cp_commit"}
    /\ s \in computing
    /\ computing' = computing \ {s}
    /\ \E r \in {"ok", "degenerate", "error"} : results' = results @@ (s :> r)
    /\ finished' = Append(finished, s)
    /\ UNCHANGED <<aside, numeric, konst, pc, raised, config_data, files, dask, train, lists, i,
                   submitted, writing, f_store, ncommits, faulted, degenerate>>

\* lines 540-543: as_completed yields the next finished future with its
\* result, re-raising the error of a failed one; a degenerate result is
\* passed over, any other begins its commit
CpYield ==
    /\ pc = "cp_await"
    /\ IF finished = << >>
         THEN /\ computing = {}
              /\ i' = i + batch_size
              /\ results' = << >>
              /\ pc' = "cp_submit"
              /\ UNCHANGED <<raised, lists, computing, finished, writing, faulted,
                             degenerate>>
         ELSE LET key == Head(finished)
                  file_idx == FileIdx(key)
              IN  CASE results[key] = "error" ->
                         /\ faulted' = faulted \cup {key}
                         /\ CpFail("SessionError")
                         /\ UNCHANGED degenerate
                    [] results[key] = "degenerate" ->
                         /\ degenerate' = degenerate \cup {key}
                         /\ finished' = Tail(finished)
                         /\ UNCHANGED <<pc, raised, lists, i, computing, results,
                                        writing, faulted>>
                    [] OTHER ->
                         /\ finished' = Tail(finished)
                         /\ writing' = writing \cup
                              {[uuid |-> uuids_batch[file_idx + 1], src |-> key]}
                         /\ pc' = "cp_commit"
                         /\ UNCHANGED <<raised, lists, i, computing, results, faulted,
                                        degenerate>>
    /\ UNCHANGED <<aside, numeric, konst, config_data, files, dask, train, submitted, f_store,
                   ncommits>>

\* lines 544-547: cps_score/<uuid> and cps/<uuid> are created
CpCommit ==
    /\ pc = "cp_commit"
    /\ \E c \in writing, outcome \in {"ok", "error"} :
         IF outcome = "ok"
           THEN /\ writing' = writing \ {c}
                /\ f_store' = f_store \cup {c}
                /\ ncommits' = ncommits + 1
                /\ save_h5' = "written"
                /\ pc' = "cp_await"
                /\ UNCHANGED <<raised, lists, i, computing, results, finished, faulted>>
           ELSE /\ faulted' = faulted \cup {c.src}
                /\ CpFail("SessionError")
                /\ UNCHANGED <<f_store, ncommits, save_h5>>
    /\ UNCHANGED <<aside, numeric, konst, config_data, output_dir, enumerated, h5s, ts_checked,
                   config_store, opened, plots, dask, train, submitted, degenerate>>

\* lines 409-411: the bare except of the wrapper closes the client only, and
\* unguarded
CpInterrupted ==
    /\ pc = "cp_interrupted"
    /\ echoed' = TRUE
    /\ \E fails \in BOOLEAN :
         IF fails
           THEN Raise("CloseError") /\ UNCHANGED client
           ELSE client' = "closed" /\ pc' = "cp_teardown" /\ UNCHANGED raised
    /\ UNCHANGED <<pure, asked, warned, numeric, konst, config_data, files, cluster, train, applier>>

\* lines 413-420
CpTeardown ==
    /\ pc = "cp_teardown"
    /\ Teardown("cp_read")
    /\ UNCHANGED <<aside, numeric, konst, raised, config_data, files, train, applier>>

\* lines 423-434: the store is opened for reading and the block durations
\* of its sessions are concatenated and plotted; there is no store to open
\* if none was written, and nothing to concatenate if it holds no session
CpRead ==
    /\ pc = "cp_read"
    /\ CASE save_h5 = "absent" ->
              Raise("OSError") /\ UNCHANGED plots
         [] save_h5 = "truncated" ->
              Raise("ValueError") /\ UNCHANGED plots
         [] OTHER ->
              /\ plots' = plots \cup {"changepoints_dist"}
              /\ pc' = "cp_return"
              /\ UNCHANGED raised
    /\ UNCHANGED <<aside, numeric, konst, config_data, output_dir, enumerated, h5s, ts_checked,
                   save_h5, config_store, opened, dask, train, applier>>

\* line 436
CpReturn ==
    /\ pc = "cp_return"
    /\ pc' = "returned"
    /\ UNCHANGED <<aside, numeric, konst, raised, config_data, files, dask, train, applier>>

(***************************************************************************)
(* The changepoint run.                                                    *)
(***************************************************************************)
CpConfigs ==
    [pca_file : {"none", "configured"}, pca_file_scores : {"none", "configured"},
     cluster_type : {"local"}]

\* the session files found and, for each, whether its chunks fail to add up
\* to its scores
CpSessions(most) ==
    UNION {[nsessions : {n}, mismatch : [1..n -> BOOLEAN]] : n \in 0..most}

CpFiles ==
    [cfg_pca_exists : BOOLEAN, default_pca_exists : BOOLEAN, pca_yaml_exists : BOOLEAN,
     yaml_missing_data : BOOLEAN, scores_exists : BOOLEAN]

CpArgs == [missing_data : BOOLEAN, pca_scores : {"none", "path"}]

\* every arrangement of the basis and scores files and of the arguments of
\* a direct call, over at most one session
InitCp ==
    /\ config_data \in CpConfigs
    /\ \/ /\ func = "compute_changepoints_wrapper"
          /\ \E se \in CpSessions(1), fl \in CpFiles : env = se @@ fl
          /\ (config_data.pca_file = "none" => ~env.cfg_pca_exists)
       \/ /\ func = "get_changepoints_dask"
          /\ \E se \in CpSessions(1), ar \in CpArgs : env = se @@ ar
          /\ config_data.pca_file = "none"
          /\ config_data.pca_file_scores = "none"
    /\ FreshRun

\* every arrangement of sessions, over a basis trained into
\* <output_dir>/pca.h5 and scores in <output_dir>/pca_scores.h5
InitDetect ==
    /\ config_data \in CpConfigs
    /\ config_data.pca_file = "none"
    /\ config_data.pca_file_scores = "none"
    /\ \/ /\ func = "compute_changepoints_wrapper"
          /\ \E se \in CpSessions(MaxSessions), md \in BOOLEAN :
                env = se @@ [cfg_pca_exists |-> FALSE, default_pca_exists |-> TRUE,
                             pca_yaml_exists |-> TRUE, yaml_missing_data |-> md,
                             scores_exists |-> TRUE]
       \/ /\ func = "get_changepoints_dask"
          /\ \E se \in CpSessions(MaxSessions), md \in BOOLEAN :
                env = se @@ [missing_data |-> md, pca_scores |-> "path"]
    /\ (~MissingData => \A h5 \in 1..env.nsessions : ~env.mismatch[h5])
    /\ FreshRun
    /\ output_dir = "present"
    /\ save_h5 = "absent"

NextCp ==
    \/ wrapped
    \/ CpPaths
    \/ CpLoad
    \/ CpInitDask
    \/ Call
    \/ CpSetup
    \/ CpOpenStore
    \/ CpSubmit
    \/ \E s \in 1..MaxSessions : CpFinish(s)
    \/ CpYield
    \/ CpCommit
    \/ CpInterrupted
    \/ CpTeardown
    \/ CpRead
    \/ CpReturn

SpecCp == InitCp /\ [][NextCp]_vars

\* the changepoint run over several sessions, some of them with scores that
\* do not match their frames
SpecSkip == InitDetect /\ [][NextCp]_vars

\* the sessions of either run, batch by batch
SpecBatches == (InitScores \/ InitDetect) /\ [][NextApply \/ NextCp]_vars


(***************************************************************************)
(* Imputation of masked pixels from a low-rank reconstruction, on one      *)
(* flattened frame and a basis of one component.  Heights, components and  *)
(* scores are integers.  Filtering of the frames is left out: it comes     *)
(* before the imputation and does not enter it.                            *)
(***************************************************************************)
Pixels == 1..NPixels

RECURSIVE DotTo(_, _, _)
DotTo(x, y, n) == IF n = 0 THEN 0 ELSE x[n] * y[n] + DotTo(x, y, n - 1)

\* frames.dot(pca_components.T), lines 317, 398
Score(fr, components) == DotTo(fr, components, NPixels)

\* scores.dot(pca_components), lines 322, 401, 513
Recon(sc, components) == [p \in Pixels |-> sc * components[p]]

\* frames[mask] = 0, lines 304, 383, 496
Zeroed(fr, mask) == [p \in Pixels |-> IF mask[p] THEN 0 ELSE fr[p]]

\* recon[recon < min_height] = 0; recon[recon > max_height] = 0
\* (lines 71-72, 323-324, 402-403)
Clip(recon, cfg) ==
    [p \in Pixels |->
        IF recon[p] < cfg.min_height \/ recon[p] > cfg.max_height THEN 0 ELSE recon[p]]

\* the same, taking every entry from new_data
mask_data_All(original_data, mask, new_data) ==
    [p \in Pixels |-> new_data[p]]

\* lines 14-33
mask_data(original_data, mask, new_data) ==
    [p \in Pixels |-> IF mask[p] THEN new_data[p] ELSE original_data[p]]

Masked == {p \in Pixels : env.mask[p]}

\* what u.s.v + mean of a truncated SVD may hold
ReconValues == (0 - 1)..(MaxDepth + 1)

ImputingPaths == {"compute_svd", "apply_pca_local", "apply_pca_dask"}

\* the trainer's array X: the frame followed by a frame of zeros with
\* nothing masked, so that column means and variances are those of more
\* than one row
X(fr) == <<fr, [p \in Pixels |-> 0]>>

RECURSIVE ColumnTo(_, _, _)
ColumnTo(rows, p, n) == IF n = 0 THEN 0 ELSE rows[n][p] + ColumnTo(rows, p, n - 1)

\* dask_array.mean(axis=0), lines 219 and 74, times the number of rows
Mean(rows) == [p \in Pixels |-> ColumnTo(rows, p, Len(rows))]

\* dask_array - mean, lines 65 and 68, times the number of rows
Minus(rows, m) == [k \in 1..Len(rows) |-> [p \in Pixels |-> Len(rows) * rows[k][p] - m[p]]]

RECURSIVE SquaresTo(_, _)
SquaresTo(row, n) == IF n = 0 THEN 0 ELSE row[n] * row[n] + SquaresTo(row, n - 1)

RECURSIVE SumSquaresTo(_, _)
SumSquaresTo(rows, k) ==
    IF k = 0 THEN 0 ELSE SquaresTo(rows[k], NPixels) + SumSquaresTo(rows, k - 1)

\* dask_array.var(ddof=1, axis=0).sum(), line 76, times N * N * (N - 1)
TotalVar(rows) == SumSquaresTo(Minus(rows, Mean(rows)), Len(rows))

\* the frame is read and its masked pixels are set to 0 (lines 298-312,
\* 378-397; train_pca_dask hands compute_svd the array and its mask)
ReadFrame ==
    /\ pc = "start"
    /\ func \in ImputingPaths
    /\ pixels' = Zeroed(env.frames, env.mask)
    /\ mean' = IF func = "compute_svd" THEN Mean(X(pixels')) ELSE mean
    /\ pc' = IF func = "compute_svd" THEN "svd" ELSE "score"
    /\ UNCHANGED <<aside, konst, raised, config_data, files, dask, train, applier, scores, counts,
                   centered, total_var>>

\* the same without line 74
SvdIteration_StaleMean ==
    /\ pc = "svd"
    /\ iter < env.iters - 1
    /\ centered' = Minus(X(pixels), mean)
    /\ \E r \in [Masked -> ReconValues] :
         LET recon == [p \in Pixels |-> IF env.mask[p] THEN r[p] ELSE pixels[p]]
         IN  pixels' = mask_data(pixels, env.mask, Clip(recon, config_data))
    /\ iter' = iter + 1
    /\ svds' = svds + 1
    /\ imputes' = imputes + 1
    /\ UNCHANGED <<aside, konst, pc, raised, config_data, files, dask, train, applier, scores,
                   projections, mean, total_var>>

\* lines 67-74: an imputing iteration of compute_svd.  Which reconstruction
\* the SVD yields is left open; its entries outside the mask are not read.
\* The SVD is of dask_array - mean; the mean is taken again from the array
\* mask_data returned
SvdIteration ==
    /\ pc = "svd"
    /\ iter < env.iters - 1
    /\ centered' = Minus(X(pixels), mean)
    /\ \E r \in [Masked -> ReconValues] :
         LET recon == [p \in Pixels |-> IF env.mask[p] THEN r[p] ELSE pixels[p]]
         IN  pixels' = mask_data(pixels, env.mask, Clip(recon, config_data))
    /\ mean' = Mean(X(pixels'))
    /\ iter' = iter + 1
    /\ svds' = svds + 1
    /\ imputes' = imputes + 1
    /\ UNCHANGED <<aside, konst, pc, raised, config_data, files, dask, train, applier, scores,
                   projections, total_var>>

\* the same, free to leave the loop after any SVD
SvdReturn_OnConvergence ==
    /\ pc = "svd"
    /\ pc' = "returned"
    /\ svds' = svds + 1
    /\ centered' = Minus(X(pixels), mean)
    /\ total_var' = TotalVar(X(pixels))
    /\ UNCHANGED <<aside, konst, raised, config_data, files, dask, train, applier, pixels, scores,
                   iter, imputes, projections, mean>>

\* lines 67-69, 76-82: the last pass of the loop runs its SVD and imputes
\* nothing; s and v are those of this SVD
SvdReturn ==
    /\ pc = "svd"
    /\ iter >= env.iters - 1
    /\ pc' = "returned"
    /\ svds' = svds + 1
    /\ centered' = Minus(X(pixels), mean)
    /\ total_var' = TotalVar(X(pixels))
    /\ UNCHANGED <<aside, konst, raised, config_data, files, dask, train, applier, pixels, scores,
                   iter, imputes, projections, mean>>

\* the frame filled in from its clipped reconstruction, lines 322-325 and
\* 401-404
Filled(fr) ==
    mask_data(fr, env.mask,
              Clip(Recon(Score(fr, env.pca_components), env.pca_components),
                   config_data))

\* the same, keeping the scores of line 317
LocalImpute_FirstProjection ==
    /\ pc = "score"
    /\ func = "apply_pca_local"
    /\ pixels' = Filled(pixels)
    /\ imputes' = imputes + 1
    /\ scores' = Score(pixels, env.pca_components)
    /\ projections' = projections + 1
    /\ pc' = "scored"
    /\ UNCHANGED <<aside, konst, raised, config_data, files, dask, train, applier, iter, svds,
                   moments>>

\* apply_pca_local, lines 317-326: scores (317), recon from them, clipped
\* (322-324), the masked entries filled in (325), scores again (326)
LocalImpute ==
    /\ pc = "score"
    /\ func = "apply_pca_local"
    /\ pixels' = Filled(pixels)
    /\ imputes' = imputes + 1
    /\ scores' = Score(Filled(pixels), env.pca_components)
    /\ projections' = projections + 2
    /\ pc' = "scored"
    /\ UNCHANGED <<aside, konst, raised, config_data, files, dask, train, applier, iter, svds,
                   moments>>

\* apply_pca_dask, lines 398-405: the same steps, the fill by mask_data
DaskImpute ==
    /\ pc = "score"
    /\ func = "apply_pca_dask"
    /\ pixels' = Filled(pixels)
    /\ imputes' = imputes + 1
    /\ scores' = Score(Filled(pixels), env.pca_components)
    /\ projections' = projections + 2
    /\ pc' = "scored"
    /\ UNCHANGED <<aside, konst, raised, config_data, files, dask, train, applier, iter, svds,
                   moments>>

\* get_changepoints_dask, lines 491-514, run on the session once its scores
\* are stored: the frame is read again and filled in from the
\* reconstruction of the stored scores
DetectImpute ==
    /\ pc = "scored"
    /\ pixels' = mask_data(Zeroed(env.frames, env.mask), env.mask,
                           Recon(scores, env.pca_components))
    /\ pc' = "detected"
    /\ UNCHANGED <<aside, konst, raised, config_data, files, dask, train, applier, scores, counts, moments>>

ImputeConfigs ==
    {c \in [min_height : 0..MaxDepth, max_height : 0..MaxDepth] :
        c.min_height <= c.max_height}

ImputeEnvs ==
    [frames : [Pixels -> 0..MaxDepth], mask : [Pixels -> BOOLEAN],
     pca_components : [Pixels -> {0 - 1, 0, 1}], iters : 1..MaxIters]

\* a session with missing data, in training or in scoring followed by
\* changepoint detection
InitImpute ==
    /\ func \in ImputingPaths
    /\ config_data \in ImputeConfigs
    /\ env \in ImputeEnvs
    /\ (func = "compute_svd" => \A p \in Pixels : env.pca_components[p] = 0)
    /\ (func # "compute_svd" => env.iters = 1)
    /\ FreshRun
    /\ output_dir = "present"
    /\ save_h5 = "absent"

NextImpute ==
    \/ ReadFrame
    \/ SvdIteration
    \/ SvdReturn
    \/ LocalImpute
    \/ DaskImpute
    \/ DetectImpute

SpecImpute == InitImpute /\ [][NextImpute]_vars

(***************************************************************************)
(* What is done to a frame before it reaches the SVD or the projection,    *)
(* step by step.  The values are followed up to the cleaning; what         *)
(* clean_frames and the FFT compute is not.                                *)
(***************************************************************************)
PrePaths == {"train_pca_wrapper", "apply_pca_local", "apply_pca_dask"}

\* the frames are read from the session file (wrappers.py 133-135, util.py
\* 298, 374-375)
PreRead ==
    /\ pc = "start"
    /\ func \in PrePaths
    /\ pixels' = env.frames
    /\ pc' = IF func = "train_pca_wrapper" THEN "pre_heights" ELSE "pre_mask"
    /\ UNCHANGED <<aside, konst, raised, config_data, files, dask, train, applier, scores, counts,
                   moments>>

\* wrappers.py 138-139, in train_pca_wrapper only
PreHeights ==
    /\ pc = "pre_heights"
    /\ pixels' = Clip(pixels, config_data)
    /\ steps' = Append(steps, "heights")
    /\ pc' = "pre_mask"
    /\ UNCHANGED <<twice, reindexed, v, call, detect, depth, told, konst, raised, config_data,
                   files, dask, train, applier, scores, counts, moments>>

\* util.py 193-196, 300-305, 378-384: with missing data the masked pixels
\* are set to 0
PreMask ==
    /\ pc = "pre_mask"
    /\ IF env.missing_data
         THEN /\ pixels' = Zeroed(pixels, env.mask)
              /\ steps' = Append(steps, "mask")
         ELSE UNCHANGED <<pixels, steps>>
    /\ pc' = "pre_clean"
    /\ UNCHANGED <<twice, reindexed, v, call, detect, depth, told, konst, raised, config_data,
                   files, dask, train, applier, scores, counts, moments>>

\* util.py 198-203, 307, 386-390: clean_frames, the spatial and temporal
\* filters
PreClean ==
    /\ pc = "pre_clean"
    /\ steps' = Append(steps, "clean")
    /\ pc' = "pre_fft"
    /\ UNCHANGED <<twice, reindexed, v, call, detect, depth, told, konst, raised, config_data,
                   files, dask, train, applier, numeric>>

\* util.py 205-209, 309-310, 392-395
PreFft ==
    /\ pc = "pre_fft"
    /\ steps' = IF config_data.use_fft THEN Append(steps, "fft") ELSE steps
    /\ pc' = "pre_done"
    /\ UNCHANGED <<twice, reindexed, v, call, detect, depth, told, konst, raised, config_data,
                   files, dask, train, applier, numeric>>

PreConfigs ==
    {c \in [min_height : 0..MaxDepth, max_height : 0..MaxDepth, use_fft : BOOLEAN] :
        c.min_height <= c.max_height}

PreEnvs ==
    [frames : [Pixels -> 0..MaxDepth], mask : [Pixels -> BOOLEAN], missing_data : BOOLEAN]

InitPre ==
    /\ func \in PrePaths
    /\ config_data \in PreConfigs
    /\ env \in PreEnvs
    /\ (func = "train_pca_wrapper" => ~(env.missing_data /\ config_data.use_fft))
    /\ (~env.missing_data => \A p \in Pixels : ~env.mask[p])
    /\ FreshRun
    /\ output_dir = "present"
    /\ save_h5 = "absent"

NextPre ==
    \/ PreRead
    \/ PreHeights
    \/ PreMask
    \/ PreClean
    \/ PreFft

SpecPre == InitPre /\ [][NextPre]_vars

(***************************************************************************)
(* Chunked cleaning: the overlap a chunk is given on either side when a    *)
(* temporal filter is on.                                                  *)
(***************************************************************************)
\* util.py 200 and 388
OverlapDepth == 20

\* util.py 198, 386: a temporal Gaussian or a temporal median is on
TemporalFiltering(cfg) == cfg.gaussfilter_time > 0 \/ cfg.medfilter_time > 0

\* the frames a temporal filter reaches on either side of a frame: half
\* the median kernel, four sigma of the Gaussian
TemporalSupport(cfg) ==
    LET median == IF cfg.medfilter_time > 0 THEN (cfg.medfilter_time - 1) \div 2 ELSE 0
        gauss == 4 * cfg.gaussfilter_time
    IN  IF median > gauss THEN median ELSE gauss

\* train_pca_dask, lines 191 and 198-203
CleanTrain ==
    /\ pc = "start"
    /\ func = "train_pca_dask"
    /\ IF TemporalFiltering(config_data)
         THEN /\ depth' = Min(env.smallest_chunk, OverlapDepth)
              /\ steps' = <<"map_overlap">>
         ELSE /\ depth' = 0
              /\ steps' = <<"map_blocks">>
    /\ pc' = "cleaned"
    /\ UNCHANGED <<twice, reindexed, v, call, detect, told, konst, raised, config_data, files,
                   dask, train, applier, numeric>>

\* apply_pca_dask, lines 386-390
CleanApply ==
    /\ pc = "start"
    /\ func = "apply_pca_dask"
    /\ IF TemporalFiltering(config_data)
         THEN /\ depth' = OverlapDepth
              /\ steps' = <<"map_overlap">>
         ELSE /\ depth' = 0
              /\ steps' = <<"map_blocks">>
    /\ pc' = "cleaned"
    /\ UNCHANGED <<twice, reindexed, v, call, detect, told, konst, raised, config_data, files,
                   dask, train, applier, numeric>>

InitOverlap ==
    /\ func \in {"train_pca_dask", "apply_pca_dask"}
    /\ config_data \in [gaussfilter_time : 0..MaxSigma, medfilter_time : 0..MaxKernel]
    /\ env \in [smallest_chunk : 1..MaxChunk]
    /\ FreshRun
    /\ output_dir = "present"
    /\ save_h5 = "absent"

NextOverlap ==
    \/ CleanTrain
    \/ CleanApply

SpecOverlap == InitOverlap /\ [][NextOverlap]_vars

(***************************************************************************)
(* The two appliers on one session with missing data.                      *)
(***************************************************************************)
RescoreEnvs ==
    [frames : [Pixels -> 0..MaxDepth], mask : [Pixels -> BOOLEAN],
     pca_components : [Pixels -> {0 - 1, 0, 1}], iters : {1}]

InitRescore ==
    /\ func \in {"apply_pca_local", "apply_pca_dask"}
    /\ config_data \in ImputeConfigs
    /\ env \in RescoreEnvs
    /\ FreshRun
    /\ output_dir = "present"
    /\ save_h5 = "absent"

NextRescore ==
    \/ ReadFrame
    \/ LocalImpute
    \/ DaskImpute

SpecRescore == InitRescore /\ [][NextRescore]_vars

(***************************************************************************)
(* compute_svd in missing-data mode, and mask_data called on its own.      *)
(***************************************************************************)
\* a caller binds the three arguments of mask_data (line 14)
MaskDataCalled ==
    /\ pc = "start"
    /\ func = "mask_data"
    /\ arg_original' = env.original_data
    /\ arg_mask' = env.mask
    /\ arg_new' = env.new_data
    /\ pc' = "mask_data"
    /\ UNCHANGED <<twice, reindexed, v, detect, prep, output, told, numeric, konst, raised, config_data,
                   files, dask, train, applier>>

\* lines 30-33: output is a copy of original_data, the assignment of line
\* 31 writes into the copy, and the copy is returned
MaskData ==
    /\ pc = "mask_data"
    /\ output' = mask_data(arg_original, arg_mask, arg_new)
    /\ pc' = "returned"
    /\ UNCHANGED <<twice, reindexed, v, detect, prep, arg_original, arg_mask, arg_new, told, numeric,
                   konst, raised, config_data, files, dask, train, applier>>

MaskDataEnvs ==
    [original_data : [Pixels -> 0..MaxDepth], mask : [Pixels -> BOOLEAN],
     new_data : [Pixels -> ReconValues]]

InitMaskData ==
    /\ func = "mask_data"
    /\ config_data \in {c \in ImputeConfigs : c.min_height = 0 /\ c.max_height = MaxDepth}
    /\ env \in MaskDataEnvs
    /\ FreshRun
    /\ output_dir = "present"
    /\ save_h5 = "absent"

\* the trainer's array with its mask
InitSvd ==
    /\ InitImpute
    /\ func = "compute_svd"

NextSvd ==
    \/ ReadFrame
    \/ SvdIteration
    \/ SvdReturn
    \/ MaskDataCalled
    \/ MaskData

SpecSvd == (InitSvd \/ InitMaskData) /\ [][NextSvd]_vars

(***************************************************************************)
(* get_changepoints_dask on one session of one frame, by value: what the   *)
(* random projection and the detector are handed and what is stored of     *)
(* the detector's result.  A stored time is held as a fraction num / den.  *)
(***************************************************************************)
\* data.py 110-116: the dict load_pcs_for_cp builds
ParamKeys == {"k", "sigma", "peak_height", "peak_neighbors", "rps"}

\* the detector's first output: the accepted peaks as real times, read off
\* the timestamp series
get_changepoints(peaks, timestamps) ==
    [k \in 1..Len(peaks) |-> timestamps[peaks[k]]]

\* the caller passes its dict
DetectCalled ==
    /\ pc = "start"
    /\ func = "get_changepoints_dask"
    /\ changepoint_params' = env.changepoint_params
    /\ pc' = "det_pop"
    /\ UNCHANGED <<twice, reindexed, v, call, prep, told, rps_input, ts_input, cps_result, cps_stored,
                   numeric, konst, raised, config_data, files, dask, train, applier>>

\* line 474: nrps = changepoint_params.pop('rps')
DetectPop ==
    /\ pc = "det_pop"
    /\ IF "rps" \in changepoint_params
         THEN /\ changepoint_params' = changepoint_params \ {"rps"}
              /\ pc' = "det_read"
              /\ UNCHANGED raised
         ELSE /\ Raise("KeyError")
              /\ UNCHANGED changepoint_params
    /\ UNCHANGED <<twice, reindexed, v, call, prep, told, rps_input, ts_input, cps_result, cps_stored,
                   numeric, konst, config_data, files, dask, train, applier>>

\* lines 483-514: the session's frames and timestamps are read; with
\* missing data the masked entries are set to 0 and filled in from the
\* reconstruction of the real rows of the stored scores
DetectRead ==
    /\ pc = "det_read"
    /\ pixels' = IF env.missing_data
                   THEN mask_data(Zeroed(env.frames, env.mask), env.mask,
                                  Recon(env.scores, env.pca_components))
                   ELSE env.frames
    /\ scores' = IF env.missing_data THEN env.scores ELSE scores
    /\ ts_input' = env.timestamps
    /\ pc' = "det_hand"
    /\ UNCHANGED <<twice, reindexed, v, call, prep, told, changepoint_params, rps_input, cps_result,
                   cps_stored, counts, moments, konst, raised, config_data, files, dask, train,
                   applier>>

\* lines 516-521: get_rps is handed frames, get_changepoints the timestamps
\* read at line 487 and what is left of changepoint_params
DetectHand ==
    /\ pc = "det_hand"
    /\ rps_input' = <<pixels>>
    /\ pc' = "det_compute"
    /\ UNCHANGED <<twice, reindexed, v, call, prep, told, changepoint_params, ts_input, cps_result,
                   cps_stored, numeric, konst, raised, config_data, files, dask, train, applier>>

\* the worker returns: peaks as times with their score, or (None, None)
DetectResult ==
    /\ pc = "det_compute"
    /\ \E peaks \in {<< >>, <<1>>}, sc \in 0..1, none \in BOOLEAN :
         cps_result' = IF none THEN [none |-> TRUE]
                       ELSE [cps |-> get_changepoints(peaks, ts_input), score |-> sc]
    /\ pc' = "det_store"
    /\ UNCHANGED <<twice, reindexed, v, call, prep, told, changepoint_params, rps_input, ts_input,
                   cps_stored, numeric, konst, raised, config_data, files, dask, train, applier>>

\* lines 543-547: cps_score/<uuid> takes result[1], cps/<uuid> takes
\* result[0] / fps
DetectStore ==
    /\ pc = "det_store"
    /\ cps_stored' =
          IF "none" \in DOMAIN cps_result THEN cps_stored
          ELSE [cps |-> [k \in 1..Len(cps_result.cps) |->
                            [num |-> cps_result.cps[k], den |-> env.fps]],
                cps_score |-> cps_result.score]
    /\ pc' = "returned"
    /\ UNCHANGED <<twice, reindexed, v, call, prep, told, changepoint_params, rps_input, ts_input,
                   cps_result, numeric, konst, raised, config_data, files, dask, train, applier>>

\* the caller invokes get_changepoints_dask once more with the same dict
DetectAgain ==
    /\ pc = "returned"
    /\ func = "get_changepoints_dask"
    /\ round = 1
    /\ round' = 2
    /\ rps_input' = << >>
    /\ ts_input' = << >>
    /\ cps_result' = << >>
    /\ pc' = "det_pop"
    /\ UNCHANGED <<previous, reindexed, v, call, prep, told, changepoint_params, cps_stored, numeric,
                   konst, raised, config_data, files, dask, train, applier>>

DetectEnvs ==
    [frames : [Pixels -> 0..MaxDepth], mask : [Pixels -> BOOLEAN],
     pca_components : [Pixels -> 0..1], scores : 0..1, missing_data : BOOLEAN,
     timestamps : [1..1 -> 0..MaxTime], fps : 1..MaxFps, changepoint_params : {ParamKeys}]

InitDetectOne ==
    /\ func = "get_changepoints_dask"
    /\ config_data = [pca_file |-> "none", pca_file_scores |-> "none", cluster_type |-> "local"]
    /\ env \in DetectEnvs
    /\ (~env.missing_data => \A p \in Pixels : ~env.mask[p] /\ env.pca_components[p] = 0)
    /\ (~env.missing_data => env.scores = 0)
    /\ FreshRun
    /\ output_dir = "present"
    /\ save_h5 = "absent"

NextDetectOne ==
    \/ DetectCalled
    \/ DetectPop
    \/ DetectRead
    \/ DetectHand
    \/ DetectResult
    \/ DetectStore
    \/ DetectAgain

SpecDetectOne == InitDetectOne /\ [][NextDetectOne]_vars

(***************************************************************************)
(* The frame-grid reindexer on one session, and the selection              *)
(* get_changepoints_dask makes from what it stored.  A score row is named  *)
(* by its place among the session's real frames; nan marks an inserted row *)
(* and its marker.  A timestamp series is given by the number of rows the  *)
(* reindexer inserts before each of its entries.                           *)
(***************************************************************************)
nan == 0 - 1

RECURSIVE Flatten(_)
Flatten(seqs) == IF seqs = << >> THEN << >> ELSE Head(seqs) \o Flatten(Tail(seqs))

Nans(n) == [k \in 1..n |-> nan]

\* insert_nans(data, timestamps, fps): all-NaN rows are inserted where the
\* timestamps leave a gap; returns the padded rows and the marker array
insert_nans(data, timestamps) ==
    [padded |-> Flatten([k \in DOMAIN data |->
                    Nans(IF k <= Len(timestamps) THEN timestamps[k] ELSE 0)
                        \o <<data[k]>>]),
     marker |-> Flatten([k \in DOMAIN timestamps |-> Nans(timestamps[k]) \o <<k - 1>>])]

\* the score rows computed for the session's real frames
Data == [k \in 1..env.rows |-> k]

\* get_timestamps(f, frames, fps), lines 121-129: the stored series, or the
\* default one with an entry per row of `frames`, which has no gap
TimestampsOf(frames_rows) ==
    IF env.stored_ts THEN env.inserts ELSE [k \in 1..frames_rows |-> 0]

\* apply_pca_local, lines 314 and 328-334
LocalReindex ==
    /\ pc = "start"
    /\ func = "apply_pca_local"
    /\ LET out == insert_nans(Data, TimestampsOf(env.rows))
       IN  padded' = out.padded /\ marker' = out.marker
    /\ pc' = "stored"
    /\ UNCHANGED <<twice, v, told, call, detect, prep, selected, numeric, konst, raised, config_data,
                   files, dask, train, applier>>

\* apply_pca_dask, lines 431-440: `frames` is what the loading loop left
DaskReindex ==
    /\ pc = "start"
    /\ func = "apply_pca_dask"
    /\ LET out == insert_nans(Data, TimestampsOf(env.last_rows))
       IN  padded' = out.padded /\ marker' = out.marker
    /\ pc' = "stored"
    /\ UNCHANGED <<twice, v, told, call, detect, prep, selected, numeric, konst, raised, config_data,
                   files, dask, train, applier>>

\* get_changepoints_dask, lines 499-502: scores[~np.isnan(scores_idx), :];
\* a boolean index of another length than the rows is an IndexError
SelectReal ==
    /\ pc = "stored"
    /\ IF Len(marker) # Len(padded)
         THEN Raise("IndexError") /\ UNCHANGED selected
         ELSE /\ selected' = [k \in 1..Cardinality({j \in DOMAIN marker : marker[j] # nan}) |->
                                 padded[CHOOSE j \in DOMAIN marker :
                                     /\ marker[j] # nan
                                     /\ Cardinality({h \in 1..j : marker[h] # nan}) = k]]
              /\ pc' = "selected"
              /\ UNCHANGED raised
    /\ UNCHANGED <<twice, v, told, call, detect, prep, padded, marker, numeric, konst, config_data,
                   files, dask, train, applier>>

ReindexEnvs ==
    UNION {[rows : {r}, inserts : [1..r -> 0..MaxInserts], stored_ts : BOOLEAN,
            last_rows : 1..MaxRows] : r \in 1..MaxRows}

\* one session of a scoring run: its rows, its timestamps, and the rows of
\* the last session of the run
InitReindex ==
    /\ func \in {"apply_pca_local", "apply_pca_dask"}
    /\ config_data = [cluster_type |-> IF func = "apply_pca_local" THEN "nodask" ELSE "local"]
    /\ env \in ReindexEnvs
    /\ env.inserts[1] = 0
    /\ FreshRun
    /\ output_dir = "present"
    /\ save_h5 = "absent"

NextReindex ==
    \/ LocalReindex
    \/ DaskReindex
    \/ SelectReal

SpecReindex == InitReindex /\ [][NextReindex]_vars

(***************************************************************************)
(* The sign normalization of train_pca_dask, on integer components.        *)
(***************************************************************************)
Abs(x) == IF x < 0 THEN 0 - x ELSE x

Sign(x) == IF x < 0 THEN 0 - 1 ELSE IF x > 0 THEN 1 ELSE 0

\* the index of the largest entry, signs kept
ArgMax_Signed(row) ==
    CHOOSE d \in Pixels :
        /\ \A e \in Pixels : row[e] <= row[d]
        /\ \A e \in 1..(d - 1) : row[e] < row[d]

\* np.argmax(np.abs(v), axis=1), line 245: the first index of largest
\* magnitude
ArgMaxAbs(row) ==
    CHOOSE d \in Pixels :
        /\ \A e \in Pixels : Abs(row[e]) <= Abs(row[d])
        /\ \A e \in 1..(d - 1) : Abs(row[e]) < Abs(row[d])

\* line 240: compute_svd hands back the components
SvdReturned ==
    /\ pc = "start"
    /\ func = "train_pca_dask"
    /\ v' = env.v
    /\ pc' = "sign"
    /\ UNCHANGED <<twice, reindexed, told, call, detect, prep, numeric, konst, raised, config_data, files, dask,
                   train, applier>>

\* lines 244-247
SignCorrect ==
    /\ pc = "sign"
    /\ func = "train_pca_dask"
    /\ LET tmp == [r \in DOMAIN v |-> ArgMaxAbs(v[r])]
           correction == [r \in DOMAIN v |-> Sign(v[r][tmp[r]])]
       IN  v' = [r \in DOMAIN v |-> [d \in Pixels |-> v[r][d] * correction[r]]]
    /\ pc' = "returned"
    /\ UNCHANGED <<twice, reindexed, told, call, detect, prep, numeric, konst, raised, config_data, files, dask,
                   train, applier>>

\* what compute_svd returned: rank rows over the pixels
SvdRows == UNION {[1..r -> [Pixels -> {0 - 2, 0 - 1, 0, 1}]] : r \in 1..MaxRank}

InitSign ==
    /\ func = "train_pca_dask"
    /\ env \in [v : SvdRows]
    /\ config_data = [rank |-> Len(env.v)]
    /\ FreshRun
    /\ output_dir = "present"
    /\ save_h5 = "absent"

NextSign ==
    \/ SvdReturned
    \/ SignCorrect

SpecSign == InitSign /\ [][NextSign]_vars

(***************************************************************************)
(* The three wrappers, and the direct call of get_changepoints_dask, side   *)
(* by side.                                                                *)
(***************************************************************************)
InitWrappers ==
    \/ InitTrain
    \/ InitApply
    \/ InitCp

NextWrappers == NextTrain \/ NextApply \/ NextCp

SpecWrappers == InitWrappers /\ [][NextWrappers]_vars

(***************************************************************************)
(* C1: train_pca_wrapper with missing_data and use_fft both set fails      *)
(* before any I/O: no session file enumerated or opened, no output         *)
(* directory, config yaml or basis file created, no compute client.        *)
(***************************************************************************)
C1_FailsBeforeAnyIO ==
    (func = "train_pca_wrapper" /\ UnsupportedConfiguration(config_data) /\ Terminated)
        => /\ raised = "NotImplementedError"
           /\ ~enumerated
           /\ ~opened
           /\ output_dir # "created"
           /\ ~config_store
           /\ Untouched(save_h5)
           /\ client = "none"

C3_ResourcesReleased ==
    (func = "train_pca_wrapper" /\ train_exc # "none" /\ Terminated)
        => (client = "closed" /\ cluster = "closed")

(***************************************************************************)
(* Derived views of the applier's state.                                   *)
(***************************************************************************)
Committed == {c.src : c \in f_store}

InFlight == submitted \ Committed

Parallel == func = "apply_pca_wrapper" /\ config_data.cluster_type # "nodask"

\* the batch a session of the list was (or would be) submitted in
BatchIndex(s) == IndexOf(h5s, s) \div env.workers

BatchOf(s) ==
    IF Parallel
      THEN {t \in Range(h5s) : BatchIndex(t) = BatchIndex(s)}
      ELSE Range(h5s)

(***************************************************************************)
(* C4: in both appliers, a session whose scoring or commit step raises is  *)
(* skipped and the scores of all other sessions of its batch are still     *)
(* committed to the output store.                                          *)
(***************************************************************************)
C4_FaultySessionSkipped ==
    (func = "apply_pca_wrapper" /\ Terminated)
        => \A s \in faulted :
              /\ s \notin Committed
              /\ (faulted = {s} => BatchOf(s) \ {s} \subseteq Committed)

(***************************************************************************)
(* C5: when neither the configured pca_file nor <output_dir>/pca.h5        *)
(* exists, apply_pca_wrapper fails with an error, the scores store is      *)
(* neither created nor truncated and no compute client is initialised.     *)
(***************************************************************************)
NoBasis == ~env.cfg_pca_exists /\ ~env.default_pca_exists

C5_MissingBasisFails ==
    (func = "apply_pca_wrapper" /\ NoBasis)
        => /\ Untouched(save_h5)
           /\ client = "none"
           /\ pc # "returned"
           /\ (pc = "raised" => raised = "IOError")

C5_Witness ==
    /\ func = "apply_pca_wrapper"
    /\ NoBasis
    /\ pc = "raised"
    /\ output_dir = "created"

(***************************************************************************)
(* C8: in apply_pca_dask with W >= 1 workers, at most W sessions are       *)
(* submitted and not yet committed, and no session of a batch is submitted *)
(* before every result of the batches before it has been committed.        *)
(***************************************************************************)
C8_InFlightBounded ==
    (Parallel /\ env.workers >= 1)
        => /\ Cardinality(InFlight) <= env.workers
           /\ \A s \in submitted : \A t \in Range(h5s) :
                 BatchIndex(t) < BatchIndex(s) => t \in Committed

C8_Witness ==
    /\ Parallel
    /\ env.workers = 2
    /\ \E s \in InFlight : BatchIndex(s) = 1
    /\ Cardinality(Committed) = 2

(***************************************************************************)
(* C10: in apply_pca_dask the timestamp series handed to the reindexer for *)
(* a committed session is that session's own series (or the default series *)
(* when its file stores none) and has one entry per row of its scores.     *)
(***************************************************************************)
C10_OwnTimestamps ==
    Parallel
        => \A c \in f_store :
              /\ c.ts.of \in {c.src, 0}
              /\ c.ts.len = c.rows

(***************************************************************************)
(* C6: changepoint detection asked for with missing data and no prior      *)
(* scores fails with an error that reaches the caller, and the changepoint *)
(* store is neither created nor truncated: both when load_pcs_for_cp finds *)
(* no scores file and when get_changepoints_dask finds pca_scores None.    *)
(***************************************************************************)
FailedUntouched ==
    /\ Untouched(save_h5)
    /\ pc # "returned"
    /\ (pc = "raised" => raised = "RuntimeError")

C6_NoScoresNoStore ==
    /\ (/\ func = "compute_changepoints_wrapper"
        /\ ~NoBasis
        /\ env.pca_yaml_exists
        /\ env.yaml_missing_data
        /\ ~env.scores_exists) => FailedUntouched
    /\ (/\ Direct
        /\ env.missing_data
        /\ env.pca_scores = "none"
        /\ env.nsessions >= 1) => FailedUntouched

C6_Witness ==
    /\ func = "compute_changepoints_wrapper"
    /\ env.yaml_missing_data
    /\ ~env.scores_exists
    /\ save_h5 = "old"
    /\ pc = "raised"
    /\ raised = "RuntimeError"

(***************************************************************************)
(* C9 as stated: in apply_pca_dask and get_changepoints_dask, whatever the *)
(* order in which the computations of a batch complete, no two commits     *)
(* overlap, and every submitted session's result is committed exactly      *)
(* once, under the UUID of the session whose data produced it.             *)
(***************************************************************************)
Distributed ==
    Parallel \/ func \in {"compute_changepoints_wrapper", "get_changepoints_dask"}

\* apply_pca_dask or get_changepoints_dask has returned
BatchesDone ==
    /\ pc \in {"apply_teardown", "apply_return", "cp_teardown", "cp_read",
               "cp_return", "returned"}
    /\ faulted = {}

OneAtATime ==
    /\ Cardinality(writing) <= 1
    /\ \A c \in f_store : c.uuid = UuidOf(c.src)
    /\ ncommits = Cardinality(Committed)

C7_ImputedWithinBounds ==
    (func \in ImputingPaths /\ pc # "start")
        => \A p \in Masked :
              \/ pixels[p] = 0
              \/ /\ config_data.min_height <= pixels[p]
                 /\ pixels[p] <= config_data.max_height

C12_RoundTrip ==
    /\ pc \in {"stored", "selected"}
          => LET kept == SelectSeq([k \in DOMAIN padded |-> [row |-> padded[k], at |-> k]],
                                  LAMBDA e : e.at > Len(marker) \/ marker[e.at] # nan)
             IN  [k \in DOMAIN kept |-> kept[k].row] = Data
    /\ (func \in {"apply_pca_local", "apply_pca_dask"} /\ Terminated)
          => pc = "selected" /\ selected = Data

(***************************************************************************)
(* C13: after the sign normalization in train_pca_dask, in every row of    *)
(* the returned components an entry of maximum absolute value is           *)
(* non-negative, and each row is the SVD's row multiplied as a whole by    *)
(* the sign of its maximum-magnitude entry; no row is reordered or mixed   *)
(* with another.                                                           *)
(***************************************************************************)
C13_SignNormalized ==
    (func = "train_pca_dask" /\ pc = "returned")
        => /\ DOMAIN v = DOMAIN env.v
           /\ \A r \in DOMAIN v :
                \E d \in Pixels :
                   /\ \A e \in Pixels : Abs(env.v[r][e]) <= Abs(env.v[r][d])
                   /\ \A e \in Pixels : Abs(v[r][e]) <= Abs(v[r][d])
                   /\ v[r][d] >= 0
                   /\ \A e \in Pixels :
                        v[r][e] = IF env.v[r][d] < 0 THEN 0 - env.v[r][e]
                                  ELSE IF env.v[r][d] > 0 THEN env.v[r][e] ELSE 0

\* a row whose largest-magnitude entry was negative, beside one left as it was
C13_Witness ==
    /\ func = "train_pca_dask"
    /\ pc = "returned"
    /\ Len(v) = 2
    /\ env.v[1] = <<0 - 2, 1>>
    /\ v[1] = <<2, 0 - 1>>
    /\ v[2] = env.v[2]
    /\ env.v[2] = <<1, 0 - 1>>

(***************************************************************************)
(* C14: a degenerate session does not abort the batch: whichever of the    *)
(* submitted sessions have the detector result (None, None), all of them   *)
(* included, get_changepoints_dask stores the changepoints of exactly the  *)
(* others, and compute_changepoints_wrapper completes and returns          *)
(* config_data.                                                            *)
(***************************************************************************)
C14_DegenerateIsSoft ==
    (func \in {"compute_changepoints_wrapper", "get_changepoints_dask"}
       /\ submitted # {} /\ faulted = {})
        => /\ degenerate \subseteq submitted
           /\ (BatchesDone => Committed = submitted \ degenerate)
           /\ (Terminated => pc = "returned")

(***************************************************************************)
(* C15: in the three wrappers an error raised while closing the compute    *)
(* client or cluster, on the success path and on the interrupted path      *)
(* alike, never propagates to the wrapper's caller.                        *)
(***************************************************************************)
C15_CloseErrorsSwallowed ==
    func \in WrapperNames => raised # "CloseError"

TrainCompleted ==
    /\ func = "train_pca_wrapper"
    /\ pc = "returned"
    /\ raised = "none"
    /\ save_h5 # "old"

PlotFiles == {"components.png", "components.pdf", "scree.png", "scree.pdf"}

C18_OptionBypassesQuestion ==
    (func = "train_pca_wrapper" /\ config_data.overwrite_pca_train)
        => /\ ~asked
           /\ ~(pc = "returned" /\ save_h5 = "old")

C20_CopyThenOverwrite ==
    /\ (func = "mask_data" /\ pc = "returned")
         => /\ \A p \in Pixels :
                  output[p] = IF env.mask[p] THEN env.new_data[p] ELSE env.original_data[p]
            /\ arg_original = env.original_data
            /\ arg_mask = env.mask
            /\ arg_new = env.new_data
    /\ (func = "compute_svd" /\ pc \in {"svd", "returned"})
         => \A p \in Pixels \ Masked : pixels[p] = env.frames[p]

\* the trainer has filled in a masked entry next to an unmasked one
C20_Witness ==
    /\ func = "compute_svd"
    /\ pc = "returned"
    /\ imputes >= 1
    /\ Pixels \ Masked # {}
    /\ \E p \in Masked : pixels[p] # 0

(***************************************************************************)
(* C21: in compute_svd every SVD decomposes X minus the column mean of     *)
(* that same X, never a mean left over from an earlier version of X, and   *)
(* the mean and total_var returned are computed from the final X, the      *)
(* version of X that the last SVD decomposed.                              *)
(***************************************************************************)
C21_MeanOfSameX ==
    [][func = "compute_svd"
         => /\ svds' = svds + 1 => centered' = Minus(X(pixels), Mean(X(pixels)))
            /\ (pc # "returned" /\ pc' = "returned")
                 => /\ mean' = Mean(X(pixels'))
                    /\ total_var' = TotalVar(X(pixels'))
                    /\ centered' = Minus(X(pixels'), mean')]_vars

\* compute_svd returned after an imputation that changed X and its mean
C21_Witness ==
    /\ func = "compute_svd"
    /\ pc = "returned"
    /\ imputes >= 1
    /\ mean # Mean(X(Zeroed(env.frames, env.mask)))
    /\ total_var > 0

(***************************************************************************)
(* C22: in missing-data mode apply_pca_local and apply_pca_dask each       *)
(* perform, per session, exactly one imputation of the masked entries and  *)
(* exactly two projections onto the basis; the scores committed are those  *)
(* of the second projection, computed from the imputed frames.             *)
(***************************************************************************)
\* the frame after the one imputation, from its first projection
ImputedOnce ==
    LET z == Zeroed(env.frames, env.mask)
        first == Score(z, env.pca_components)
    IN  [p \in Pixels |->
            IF env.mask[p]
              THEN Clip(Recon(first, env.pca_components), config_data)[p]
              ELSE z[p]]

C22_OneImputationTwoProjections ==
    (func \in {"apply_pca_local", "apply_pca_dask"} /\ pc = "scored")
        => /\ imputes = 1
           /\ projections = 2
           /\ scores = Score(ImputedOnce, env.pca_components)

\* a session whose second projection differs from its first
C22_Witness ==
    /\ func \in {"apply_pca_local", "apply_pca_dask"}
    /\ pc = "scored"
    /\ scores = Score(ImputedOnce, env.pca_components)
    /\ scores # Score(Zeroed(env.frames, env.mask), env.pca_components)

(***************************************************************************)
(* C23: the sequential and the parallel execution of the Score Applier are *)
(* equivalent: for the same basis, sessions, filter and mask parameters,   *)
(* apply_pca_local and apply_pca_dask leave the same datasets with the     *)
(* same values in the output store, for every number of workers and every  *)
(* completion order.                                                       *)
(***************************************************************************)
C23_SameStoreEitherMode ==
    (Parallel /\ round = 2 /\ pc = "returned" /\ faulted = {})
        => /\ {c.uuid : c \in f_store} = {c.uuid : c \in previous}
           /\ f_store = previous

(***************************************************************************)
(* C24: for every session with a non-degenerate detector result, the value *)
(* stored under cps/<uuid> is the ordered sequence of boundary times the   *)
(* detector returned for that session, and the value stored under          *)
(* cps_score/<uuid> is the detector's second output, both unaltered.       *)
(***************************************************************************)
C24_StoredUnaltered ==
    (pc = "returned" /\ raised = "none" /\ round = 1 /\ "cps" \in DOMAIN cps_result)
        => /\ Len(cps_stored.cps) = Len(cps_result.cps)
           /\ \A k \in 1..Len(cps_result.cps) :
                 cps_stored.cps[k].num = cps_result.cps[k] * cps_stored.cps[k].den
           /\ cps_stored.cps_score = cps_result.score

(***************************************************************************)
(* C25: for every session submitted by get_changepoints_dask, with or      *)
(* without missing-data mode, the matrix handed to the random-projection   *)
(* step is that session's real (non-padded) score matrix, paired with that *)
(* session's own timestamps.                                               *)
(***************************************************************************)
C25_ScoresHandedToRps ==
    rps_input # << >>
        => /\ rps_input = << <<scores>> >>
           /\ ts_input = env.timestamps

(***************************************************************************)
(* C30: get_changepoints_dask leaves the caller's changepoint_params       *)
(* dictionary unchanged, so invoking it a second time with the same        *)
(* dictionary behaves as the first invocation did.                         *)
(***************************************************************************)
C30_ParamsUnchanged ==
    (func = "get_changepoints_dask" /\ changepoint_params # {})
        => /\ changepoint_params = env.changepoint_params
           /\ raised # "KeyError"

(***************************************************************************)
(* C26: on every path that feeds frames to the Trainer or the Applier      *)
(* (train_pca_wrapper with train_pca_dask, apply_pca_local,                *)
(* apply_pca_dask), pixels outside [min_height, max_height] are zeroed as  *)
(* the first preprocessing step, before masking, filtering and the         *)
(* optional spectral transform.                                            *)
(***************************************************************************)
C26_HeightsZeroedFirst ==
    func \in PrePaths
        => /\ steps # << >> => steps[1] = "heights"
           /\ pc \in {"pre_fft", "pre_done"}
                => \A p \in Pixels :
                      \/ pixels[p] = 0
                      \/ /\ config_data.min_height <= pixels[p]
                         /\ pixels[p] <= config_data.max_height

(***************************************************************************)
(* C27: whenever temporal Gaussian or temporal median filtering is         *)
(* enabled, the reflected overlap depth used for chunked cleaning in       *)
(* train_pca_dask and in apply_pca_dask is at least as large as the        *)
(* temporal filter's support, for all chunk sizes and all temporal filter  *)
(* parameters.                                                             *)
(***************************************************************************)
C27_OverlapCoversSupport ==
    (pc = "cleaned" /\ TemporalFiltering(config_data))
        => depth >= TemporalSupport(config_data)

(***************************************************************************)
(* C28: in get_changepoints_dask with missing-data mode, a session whose   *)
(* frame count differs from the number of its real score rows is skipped   *)
(* with a warning and never submitted; the lists of submitted computations *)
(* and of UUIDs stay positionally aligned, and every other session of the  *)
(* batch is still computed and stored under its own UUID.                  *)
(***************************************************************************)
Mismatched == {h5 \in 1..env.nsessions : env.mismatch[h5]}

SetUpDone == pc \notin {"start", "cp_paths", "cp_load", "cp_init_dask", "cp_setup"}

RanToTheEnd ==
    /\ pc \in {"cp_teardown", "cp_read", "cp_return", "returned"}
    /\ faulted = {}
    /\ degenerate = {}

C28_MismatchSkippedOthersStored ==
    MissingData
        => /\ submitted \cap Mismatched = {}
           /\ SetUpDone => warned = Mismatched
           /\ Len(futures) = Len(uuids)
           /\ \A k \in DOMAIN futures : uuids[k] = UuidOf(futures[k])
           /\ RanToTheEnd
                => f_store = {[uuid |-> UuidOf(h5), src |-> h5] :
                                h5 \in (1..env.nsessions) \ Mismatched}

C28_Witness ==
    /\ MissingData
    /\ env.nsessions = 3
    /\ Mismatched = {2}
    /\ warned = {2}
    /\ pc = "returned"
    /\ f_store = {[uuid |-> UuidOf(1), src |-> 1], [uuid |-> UuidOf(3), src |-> 3]}

(***************************************************************************)
(* C29: when the pca yaml that records the training configuration does not *)
(* exist, get_pca_yaml_data signals the missing file with an IOError       *)
(* naming it, and load_pcs_for_cp still returns a defined missing_data and *)
(* mask_params; neither function terminates with an unbound-variable       *)
(* error.                                                                  *)
(***************************************************************************)
C29_MissingYamlHandled ==
    (func \in {"apply_pca_wrapper", "compute_changepoints_wrapper"}
       /\ ~env.pca_yaml_exists)
        => raised # "UnboundLocalError"

====
